---- MODULE Spec2Model ----
(***************************************************************************)
(* State-machine model of the task manager's reactive store                *)
(* (src/src/app/services/task.service.ts) and of the add-task form that    *)
(* feeds it (src/src/app/components/add-task/add-task.component.ts).       *)
(*                                                                         *)
(* Representation of JavaScript values:                                    *)
(*   - a string is a TLA+ string; Chars gives its characters, and          *)
(*     toLowerCase() and includes() are computed character by character;   *)
(*   - an object is a function from its own property names to values; the  *)
(*     spread {...a, ...b} is Spread(a, b); reading a property the object  *)
(*     does not own yields undefined (Get);                                *)
(*   - a Date is the one-element tuple <<ms>>, ms counted from the moment  *)
(*     the store is constructed; undefined in a Date-typed place is <<>>;  *)
(*   - undefined in a TaskPriority-typed place is the string "undefined".  *)
(* crypto.randomUUID() is modelled as returning a value it never returned  *)
(* before and that no caller could have supplied earlier (UUID(n) for the  *)
(* n-th call): a collision of 122 random bits is taken to be impossible.   *)
(***************************************************************************)
EXTENDS Integers, Sequences, FiniteSets, TLC

VARIABLES
    _tasks,      \* TaskService._tasks: the array held by the signal
    _filter,     \* TaskService._filter: the TaskFilter held by the signal
    now,         \* Date.now(), in ms since the store was constructed
    uuidCount,   \* number of crypto.randomUUID() calls made so far
    steps,       \* number of calls and clock ticks so far (bounded by MaxSteps)
    last,        \* history: the most recent call, [op, id, arg]
    before,      \* history: the state as it was when that call was made
    memo,        \* the computed signals' memoized values, one entry per view
    taskForm,    \* AddTaskComponent.taskForm.value
    isSubmitting,         \* AddTaskComponent.isSubmitting
    showSuccessMessage,   \* AddTaskComponent.showSuccessMessage
    timers,      \* pending setTimeout callbacks, in the order they were set
    accepted,    \* history: number of onSubmit calls that passed the guard
    taskList     \* TaskListComponent: searchTerm, showCompleted, selectedPriority

storeVars == <<_tasks, _filter, uuidCount, memo>>
formVars == <<taskForm, isSubmitting, showSuccessMessage, timers>>
listVars == <<taskList>>
vars == <<_tasks, _filter, now, uuidCount, steps, last, before, memo,
          taskForm, isSubmitting, showSuccessMessage, timers, accepted,
          taskList>>

\* Bound of the exploration: number of calls (and clock ticks) in a behaviour.
MaxSteps == 4

----------------------------------------------------------------------------
\* Strings

\* The characters of the strings that occur in the model.
Chars(s) ==
    CASE s = "Learn Angular 16 Signals" ->
           <<"L","e","a","r","n"," ","A","n","g","u","l","a","r"," ",
             "1","6"," ","S","i","g","n","a","l","s">>
      [] s = "Understand the new signals API" ->
           <<"U","n","d","e","r","s","t","a","n","d"," ","t","h","e",
             " ","n","e","w"," ","s","i","g","n","a","l","s"," ","A",
             "P","I">>
      [] s = "Implement Standalone Components" ->
           <<"I","m","p","l","e","m","e","n","t"," ","S","t","a","n",
             "d","a","l","o","n","e"," ","C","o","m","p","o","n","e",
             "n","t","s">>
      [] s = "Create components without NgModule" ->
           <<"C","r","e","a","t","e"," ","c","o","m","p","o","n","e",
             "n","t","s"," ","w","i","t","h","o","u","t"," ","N","g",
             "M","o","d","u","l","e">>
      [] s = "Test Task" ->
           <<"T","e","s","t"," ","T","a","s","k">>
      [] s = "Test Description" ->
           <<"T","e","s","t"," ","D","e","s","c","r","i","p","t","i",
             "o","n">>
      [] s = "Updated Title" ->
           <<"U","p","d","a","t","e","d"," ","T","i","t","l","e">>
      [] s = "signals" ->
           <<"s","i","g","n","a","l","s">>
      [] s = "COMPONENTS" ->
           <<"C","O","M","P","O","N","E","N","T","S">>
      [] s = "test" ->
           <<"t","e","s","t">>
      [] s = "" ->
           <<>>
      [] s = "ab" ->
           <<"a","b">>
      [] s = "   " ->
           <<" "," "," ">>
      [] s = " ab " ->
           <<" ","a","b"," ">>
      [] s = "  Test Task " ->
           <<" "," ","T","e","s","t"," ","T","a","s","k"," ">>

UpperCase ==
    <<"A","B","C","D","E","F","G","H","I","J","K","L","M",
      "N","O","P","Q","R","S","T","U","V","W","X","Y","Z">>
LowerCase ==
    <<"a","b","c","d","e","f","g","h","i","j","k","l","m",
      "n","o","p","q","r","s","t","u","v","w","x","y","z">>

\* String.prototype.toLowerCase on one character, then on a string.
toLowerCaseChar(c) ==
    IF \E i \in 1..Len(UpperCase) : UpperCase[i] = c
    THEN LowerCase[CHOOSE i \in 1..Len(UpperCase) : UpperCase[i] = c]
    ELSE c

\* The strings that occur in the model, and each of them lower-cased
\* (computed once).
Strings ==
    { "Learn Angular 16 Signals", "Understand the new signals API",
      "Implement Standalone Components", "Create components without NgModule",
      "Test Task", "Test Description", "Updated Title",
      "signals", "COMPONENTS", "test", "",
      "ab", "   ", " ab ", "  Test Task " }

LowerCased ==
    [s \in Strings |->
        [i \in 1..Len(Chars(s)) |-> toLowerCaseChar(Chars(s)[i])]]

toLowerCase(s) == LowerCased[s]

\* The string with these characters.
FromChars(cs) == CHOOSE s \in Strings : Chars(s) = cs

\* String.prototype.length
length(s) == Len(Chars(s))

WhiteSpace == {" "}

RECURSIVE trimStartChars(_)
trimStartChars(cs) ==
    IF Len(cs) > 0 /\ Head(cs) \in WhiteSpace
    THEN trimStartChars(Tail(cs))
    ELSE cs

RECURSIVE trimEndChars(_)
trimEndChars(cs) ==
    IF Len(cs) > 0 /\ cs[Len(cs)] \in WhiteSpace
    THEN trimEndChars(SubSeq(cs, 1, Len(cs) - 1))
    ELSE cs

\* String.prototype.trim
trim(s) == FromChars(trimEndChars(trimStartChars(Chars(s))))

\* String.prototype.includes: t occurs in s at some offset.
includes(s, t) ==
    \E off \in 0..(Len(s) - Len(t)) :
        \A j \in 1..Len(t) : s[off + j] = t[j]

----------------------------------------------------------------------------
\* Objects, dates, enum values

\* enum TaskPriority
LOW == "low"
MEDIUM == "medium"
HIGH == "high"
TaskPriority == {LOW, MEDIUM, HIGH}

Undefined == "undefined"      \* undefined where a TaskPriority is expected
UndefinedDate == <<>>         \* undefined where a Date is expected
Date(ms) == <<ms>>            \* new Date(ms)
\* new Date(s) for a string s that is no date: a Date whose time value is
\* NaN. It has two components so that it compares unequal to every Date(ms).
InvalidDate == <<"Invalid", "Date">>
MsPerDay == 24 * 60 * 60 * 1000

\* The object spread {...a, ...b}.
Spread(a, b) ==
    [k \in (DOMAIN a) \cup (DOMAIN b) |-> IF k \in DOMAIN b THEN b[k] ELSE a[k]]

\* obj[k], undefined when obj has no property k (dflt is the undefined of
\* the property's type).
Get(obj, k, dflt) == IF k \in DOMAIN obj THEN obj[k] ELSE dflt

\* JavaScript's !v for a TaskPriority | undefined and for a string.
NotPriority(p) == p = Undefined
NotString(s) == s = ""

\* crypto.randomUUID(): the n-th value it returns.
UUID(n) == "uuid-" \o ToString(n)

----------------------------------------------------------------------------
\* Initial state of the store

SeedTasks ==
    << [ id |-> "1",
         title |-> "Learn Angular 16 Signals",
         description |-> "Understand the new signals API",
         completed |-> FALSE,
         priority |-> HIGH,
         createdAt |-> Date(0),
         dueDate |-> Date(0 + 7 * MsPerDay) ],
       [ id |-> "2",
         title |-> "Implement Standalone Components",
         description |-> "Create components without NgModule",
         completed |-> TRUE,
         priority |-> MEDIUM,
         createdAt |-> Date(0 - MsPerDay) ] >>

\* Variant of DefaultFilter: completed tasks hidden by default.
DefaultFilter_HidesCompleted == [ showCompleted |-> FALSE, searchTerm |-> "" ]

DefaultFilter == [ showCompleted |-> TRUE, searchTerm |-> "" ]

----------------------------------------------------------------------------
\* Derived state (computed signals), as functions of the two signals

\* Variant of matchesCompleted: the negation of task.completed dropped.
matchesCompleted_NotNegated(filter, task) ==
    filter.showCompleted \/ task.completed

matchesCompleted(filter, task) == filter.showCompleted \/ ~task.completed

\* Variant of matchesPriority: a filter that has the key priority constrains,
\* whatever the value.
matchesPriority_KeyConstrains(filter, task) ==
    "priority" \notin DOMAIN filter \/ task.priority = filter.priority

matchesPriority(filter, task) ==
    NotPriority(Get(filter, "priority", Undefined))
        \/ task.priority = filter.priority

\* Variant of matchesSearch: the search term is not lower-cased.
matchesSearch_TermNotFolded(filter, task) ==
    \/ NotString(filter.searchTerm)
    \/ includes(toLowerCase(task.title), Chars(filter.searchTerm))
    \/ includes(toLowerCase(task.description), Chars(filter.searchTerm))

matchesSearch(filter, task) ==
    \/ NotString(filter.searchTerm)
    \/ includes(toLowerCase(task.title), toLowerCase(filter.searchTerm))
    \/ includes(toLowerCase(task.description),
                toLowerCase(filter.searchTerm))

matchesFilter(filter, task) ==
    matchesCompleted(filter, task)
        /\ matchesPriority(filter, task)
        /\ matchesSearch(filter, task)

\* Array.prototype.filter with the predicate of filteredTasks.
filterTasks(ts, filter) ==
    LET keep(task) == matchesFilter(filter, task) IN SelectSeq(ts, keep)

\* Variant of filterCompleted: the completed tasks counted among the tasks
\* that pass the filter, not among all tasks.
filterCompleted_OfFiltered(ts) ==
    LET done(task) == task.completed /\ matchesFilter(_filter, task)
    IN  SelectSeq(ts, done)

filterCompleted(ts) ==
    LET done(task) == task.completed IN SelectSeq(ts, done)

tasks == _tasks
filteredTasks == filterTasks(_tasks, _filter)
completedCount == Len(filterCompleted(_tasks))
totalCount == Len(_tasks)
getFilter == _filter

----------------------------------------------------------------------------
\* Memoization of the computed signals. A computed is "unset" until it is
\* first read, "clean" while the value it holds is current, and "dirty" once
\* a signal it reads has been set since. The value tasks holds is the array
\* of _tasks itself and the value filteredTasks holds is an array of the
\* task objects of _tasks, so both are kept as references: nothing for
\* tasks, the indices of the tasks in _tasks for filteredTasks.

Views == {"tasks", "filteredTasks", "completedCount", "totalCount"}

\* The signals each computed reads.
Dependencies(view) ==
    IF view = "filteredTasks" THEN {"_tasks", "_filter"} ELSE {"_tasks"}

NoValue == <<>>

InitialMemo == [v \in Views |-> [status |-> "unset", value |-> NoValue]]

\* Variant of notify: the signal's consumers are not told.
notify_Nobody(m, signal) == m

\* signal.update(): every computed that has read the signal becomes dirty.
notify(m, signal) ==
    [v \in Views |->
        IF signal \in Dependencies(v) /\ m[v].status = "clean"
        THEN [status |-> "dirty", value |-> NoValue]
        ELSE m[v]]

\* The indices of the tasks Array.prototype.filter keeps.
keptIndices(ts, filter) ==
    LET keep(i) == matchesFilter(filter, ts[i])
    IN  SelectSeq([i \in 1..Len(ts) |-> i], keep)

\* Variant of evaluate: the array is reversed in place before it is read
\* (tasks.reverse().filter(...)).
evaluate_ReversesInPlace(view, ts, filter) ==
    LET rev == [i \in 1..Len(ts) |-> ts[Len(ts) + 1 - i]]
    IN  [ value |-> CASE view = "tasks" -> NoValue
                      [] view = "filteredTasks" -> keptIndices(rev, filter)
                      [] view = "completedCount" -> Len(filterCompleted(rev))
                      [] view = "totalCount" -> Len(rev),
          receiver |-> rev ]

\* Running the function of a computed: the value it memoizes, and the array
\* of _tasks as the run leaves it (filter and length do not write to it).
evaluate(view, ts, filter) ==
    [ value |-> CASE view = "tasks" -> NoValue
                  [] view = "filteredTasks" -> keptIndices(ts, filter)
                  [] view = "completedCount" -> Len(filterCompleted(ts))
                  [] view = "totalCount" -> Len(ts),
      receiver |-> ts ]

\* What the caller gets from a clean computed holding value v.
returned(view, v, ts) ==
    CASE view = "tasks" -> ts
      [] view = "filteredTasks" -> [k \in 1..Len(v) |-> ts[v[k]]]
      [] view = "completedCount" -> v
      [] view = "totalCount" -> v

----------------------------------------------------------------------------
\* The updater functions the mutators pass to signal.update()

\* Variant of newTask: the spread written last, { id, createdAt, ...task },
\* so that an id or createdAt carried by the draft wins.
newTask_SpreadLast(task, uuid, t) ==
    Spread([id |-> uuid, createdAt |-> Date(t)], task)

\* Variant of newTask: the id taken from a constant instead of randomUUID().
newTask_ConstantId(task, uuid, t) ==
    Spread(task, [id |-> "new", createdAt |-> Date(t)])

\* const newTask = { ...task, id: crypto.randomUUID(), createdAt: new Date() }
newTask(task, uuid, t) == Spread(task, [id |-> uuid, createdAt |-> Date(t)])

\* Variant of addTaskUpdater: [newTask, ...tasks].
addTaskUpdater_Prepends(ts, nt) == <<nt>> \o ts

\* tasks => [...tasks, newTask]
addTaskUpdater(ts, nt) == Append(ts, nt)

\* Variant of updateTaskUpdater: the spreads swapped, { ...updates, ...task }.
updateTaskUpdater_SpreadSwapped(ts, id, updates) ==
    [i \in 1..Len(ts) |->
        IF ts[i].id = id THEN Spread(updates, ts[i]) ELSE ts[i]]

\* tasks => tasks.map(task => task.id === id ? { ...task, ...updates } : task)
updateTaskUpdater(ts, id, updates) ==
    [i \in 1..Len(ts) |->
        IF ts[i].id = id THEN Spread(ts[i], updates) ELSE ts[i]]

\* Variant of deleteTaskUpdater: === in place of !==.
deleteTaskUpdater_KeepsMatching(ts, id) ==
    LET keep(task) == task.id = id IN SelectSeq(ts, keep)

\* tasks => tasks.filter(task => task.id !== id)
deleteTaskUpdater(ts, id) ==
    LET keep(task) == task.id # id IN SelectSeq(ts, keep)

\* Variant of toggleTaskUpdater: completed set to true instead of negated.
toggleTaskUpdater_SetsTrue(ts, id) ==
    [i \in 1..Len(ts) |->
        IF ts[i].id = id THEN Spread(ts[i], [completed |-> TRUE]) ELSE ts[i]]

\* tasks => tasks.map(task =>
\*     task.id === id ? { ...task, completed: !task.completed } : task)
toggleTaskUpdater(ts, id) ==
    [i \in 1..Len(ts) |->
        IF ts[i].id = id
        THEN Spread(ts[i], [completed |-> ~ts[i].completed])
        ELSE ts[i]]

\* Variant of updateFilterUpdater: the partial replaces the filter, the
\* properties it does not name falling back to their defaults.
updateFilterUpdater_Overwrites(current, filter) == Spread(DefaultFilter, filter)

\* current => ({ ...current, ...filter })
updateFilterUpdater(current, filter) == Spread(current, filter)

----------------------------------------------------------------------------
\* Arguments the callers pass (small, chosen to exercise every branch)

NoProperties == [k \in {} |-> FALSE]     \* the object {}

\* Ids a caller can name: the seed ids, every id the store has generated so
\* far (whether its task is still held or not), and one id no task ever had.
KnownIds == {"1", "2", "no-such-id"} \cup {UUID(n) : n \in 1..uuidCount}

\* Drafts given to addTask. The second carries an id and a createdAt of its
\* own, which the type Omit<Task, 'id' | 'createdAt'> does not rule out at
\* run time; the third names dueDate and leaves it undefined.
Drafts ==
    << [ title |-> "Test Task",
         description |-> "Test Description",
         completed |-> FALSE,
         priority |-> LOW ],
       [ title |-> "signals",
         description |-> "",
         completed |-> TRUE,
         priority |-> HIGH,
         dueDate |-> Date(MsPerDay),
         id |-> "1",
         createdAt |-> Date(0 - 5) ],
       [ title |-> "Updated Title",
         description |-> "",
         completed |-> FALSE,
         priority |-> MEDIUM,
         dueDate |-> UndefinedDate ] >>

\* Partial<Task> values given to updateTask.
TaskUpdates ==
    << [ title |-> "Updated Title" ],
       [ completed |-> TRUE ],
       [ id |-> "2", createdAt |-> Date(0 - 5) ],
       [ description |-> "", priority |-> LOW,
         dueDate |-> UndefinedDate ],
       NoProperties >>

\* Partial<TaskFilter> values given to updateFilter.
FilterUpdates ==
    << [ showCompleted |-> FALSE ],
       [ showCompleted |-> TRUE ],
       [ searchTerm |-> "signals" ],
       [ searchTerm |-> "COMPONENTS" ],
       [ searchTerm |-> "" ],
       [ priority |-> HIGH ],
       [ priority |-> Undefined ],
       [ showCompleted |-> FALSE, searchTerm |-> "test",
         priority |-> HIGH ] >>

\* Clock advances between calls, in ms.
TickSteps == {500}

----------------------------------------------------------------------------
\* The add-task form

Null == "<null>"              \* null as the value of a form control

\* this.fb.group({ title: [''], description: [''], priority: [MEDIUM],
\* dueDate: [''] })
InitialForm ==
    [ title |-> "", description |-> "", priority |-> MEDIUM, dueDate |-> "" ]

\* taskForm.reset({ priority: TaskPriority.MEDIUM }): a control the argument
\* does not name is reset to null.
resetForm ==
    [ title |-> Null, description |-> Null, priority |-> MEDIUM,
      dueDate |-> Null ]

MinLength == 3         \* Validators.minLength(3)
SubmitDelay == 500     \* setTimeout(..., 500)
HideDelay == 3000      \* setTimeout(..., 3000)

\* Angular's isEmptyInputValue: null, or a string of length 0.
isEmptyInputValue(v) == v = Null \/ length(v) = 0

\* Validators.required and Validators.minLength(n): TRUE when the control
\* value passes. minLength lets an empty value pass.
required(v) == ~isEmptyInputValue(v)
minLength(v, n) == isEmptyInputValue(v) \/ length(v) >= n

\* Variant of valid: the minLength validator left out of the title control.
valid_RequiredOnly(form) == required(form.title)

\* taskForm.valid: title is the only control with validators.
valid(form) == required(form.title) /\ minLength(form.title, MinLength)

\* v?.trim(): undefined when v is null.
optionalTrim(v) == IF v = Null THEN Undefined ELSE trim(v)

\* new Date(s) for the date strings of the model. Time is counted from the
\* construction of the store; the one date string of the model is taken to
\* name the day 14 days after it.
parseDate(s) ==
    CASE s = "2030-01-01" -> Date(14 * MsPerDay)
      [] s = "not-a-date" -> InvalidDate

\* The task onSubmit builds from taskForm.value.
formTask(formValue) ==
    [ title |-> optionalTrim(formValue.title),
      description |->
          IF optionalTrim(formValue.description) \in {Undefined, ""}
          THEN ""
          ELSE optionalTrim(formValue.description),
      priority |-> formValue.priority,
      completed |-> FALSE,
      dueDate |->
          IF formValue.dueDate \in {Null, ""}
          THEN UndefinedDate
          ELSE parseDate(formValue.dueDate) ]

\* What the user puts into the controls.
FormInputs ==
    { <<"title", "">>, <<"title", "ab">>, <<"title", "   ">>,
      <<"title", " ab ">>, <<"title", "Test Task">>,
      <<"title", "  Test Task ">>,
      <<"description", "Test Description">>,
      <<"priority", HIGH>>,
      <<"dueDate", "2030-01-01">>,
      <<"dueDate", "not-a-date">> }

Max(a, b) == IF a >= b THEN a ELSE b

\* TaskListComponent's fields after its constructor, which copies them from
\* getFilter() of the new store: priority || null is null.
InitialTaskList ==
    [ searchTerm |-> DefaultFilter.searchTerm,
      showCompleted |-> DefaultFilter.showCompleted,
      selectedPriority |-> Null ]

\* The pending timer that fires next: the one due first, and among those
\* due at the same time the one set first.
NextTimer ==
    CHOOSE i \in 1..Len(timers) :
        \A j \in 1..Len(timers) :
            \/ timers[j].due > timers[i].due
            \/ timers[j].due = timers[i].due /\ j >= i

\* The pending timers without the i-th.
WithoutTimer(i) == SubSeq(timers, 1, i - 1) \o SubSeq(timers, i + 1, Len(timers))

----------------------------------------------------------------------------
\* The state machine

Init ==
    /\ _tasks = SeedTasks
    /\ _filter = DefaultFilter
    /\ now = 0
    /\ uuidCount = 0
    /\ steps = 0
    /\ last = [op |-> "new", id |-> "", arg |-> NoProperties]
    /\ before = [tasks |-> SeedTasks, filter |-> DefaultFilter,
                 isSubmitting |-> FALSE, timers |-> <<>>,
                 form |-> InitialForm, showSuccessMessage |-> FALSE,
                 now |-> 0]
    /\ memo = InitialMemo
    /\ taskForm = InitialForm
    /\ isSubmitting = FALSE
    /\ showSuccessMessage = FALSE
    /\ timers = <<>>
    /\ accepted = 0
    /\ taskList = InitialTaskList

\* Bookkeeping shared by every call: the history variables.
Recorded(op, id, arg) ==
    /\ steps' = steps + 1
    /\ last' = [op |-> op, id |-> id, arg |-> arg]
    /\ before' = [tasks |-> _tasks, filter |-> _filter,
                  isSubmitting |-> isSubmitting, timers |-> timers,
                  form |-> taskForm,
                  showSuccessMessage |-> showSuccessMessage,
                  now |-> now]
    /\ accepted' = IF op = "onSubmit" /\ valid(taskForm) /\ ~isSubmitting
                   THEN accepted + 1
                   ELSE accepted

addTask(task) ==
    /\ Recorded("addTask", "", task)
    /\ _tasks' = addTaskUpdater(_tasks, newTask(task, UUID(uuidCount + 1), now))
    /\ uuidCount' = uuidCount + 1
    /\ memo' = notify(memo, "_tasks")
    /\ UNCHANGED <<_filter, now, formVars, listVars>>

updateTask(id, updates) ==
    /\ Recorded("updateTask", id, updates)
    /\ _tasks' = updateTaskUpdater(_tasks, id, updates)
    /\ memo' = notify(memo, "_tasks")
    /\ UNCHANGED <<_filter, now, uuidCount, formVars, listVars>>

deleteTask(id) ==
    /\ Recorded("deleteTask", id, NoProperties)
    /\ _tasks' = deleteTaskUpdater(_tasks, id)
    /\ memo' = notify(memo, "_tasks")
    /\ UNCHANGED <<_filter, now, uuidCount, formVars, listVars>>

toggleTask(id) ==
    /\ Recorded("toggleTask", id, NoProperties)
    /\ _tasks' = toggleTaskUpdater(_tasks, id)
    /\ memo' = notify(memo, "_tasks")
    /\ UNCHANGED <<_filter, now, uuidCount, formVars, listVars>>

updateFilter(filter) ==
    /\ Recorded("updateFilter", "", filter)
    /\ _filter' = updateFilterUpdater(_filter, filter)
    /\ memo' = notify(memo, "_filter")
    /\ UNCHANGED <<_tasks, now, uuidCount, formVars, listVars>>

\* Time passes between two calls.
Tick(ms) ==
    /\ Recorded("tick", "", NoProperties)
    /\ now' = now + ms
    /\ UNCHANGED <<storeVars, formVars, listVars>>

Next ==
    \/ steps < MaxSteps /\ \E i \in DOMAIN Drafts : addTask(Drafts[i])
    \/ steps < MaxSteps /\ \E id \in KnownIds : \E i \in DOMAIN TaskUpdates :
                               updateTask(id, TaskUpdates[i])
    \/ steps < MaxSteps /\ \E id \in KnownIds : deleteTask(id)
    \/ steps < MaxSteps /\ \E id \in KnownIds : toggleTask(id)
    \/ steps < MaxSteps /\ \E i \in DOMAIN FilterUpdates :
                               updateFilter(FilterUpdates[i])
    \/ steps < MaxSteps /\ \E ms \in TickSteps : Tick(ms)

Spec == Init /\ [][Next]_vars

\* A newly created store on which only addTask is called (time may pass
\* between the calls).
NextAddTask ==
    \/ steps < MaxSteps /\ \E i \in DOMAIN Drafts : addTask(Drafts[i])
    \/ steps < MaxSteps /\ \E ms \in TickSteps : Tick(ms)

SpecAddTask == Init /\ [][NextAddTask]_vars

----------------------------------------------------------------------------
\* The add-task form

\* The user edits a control.
setValue(field, value) ==
    /\ Recorded("setValue", field, value)
    /\ taskForm' = [taskForm EXCEPT ![field] = value]
    /\ UNCHANGED <<storeVars, now, isSubmitting, showSuccessMessage, timers,
                   listVars>>

\* Variant of onSubmit: the guard does not look at isSubmitting.
onSubmit_IgnoresIsSubmitting ==
    /\ Recorded("onSubmit", "", taskForm)
    /\ IF valid(taskForm)
       THEN /\ isSubmitting' = TRUE
            /\ timers' = Append(timers, [ kind |-> "submit",
                                          due |-> now + SubmitDelay,
                                          task |-> formTask(taskForm) ])
       ELSE UNCHANGED <<isSubmitting, timers>>
    /\ UNCHANGED <<storeVars, now, taskForm, showSuccessMessage, listVars>>

\* AddTaskComponent.onSubmit
onSubmit ==
    /\ Recorded("onSubmit", "", taskForm)
    /\ IF valid(taskForm) /\ ~isSubmitting
       THEN /\ isSubmitting' = TRUE
            /\ timers' = Append(timers, [ kind |-> "submit",
                                          due |-> now + SubmitDelay,
                                          task |-> formTask(taskForm) ])
       ELSE UNCHANGED <<isSubmitting, timers>>
    /\ UNCHANGED <<storeVars, now, taskForm, showSuccessMessage, listVars>>

\* Variant of capturedTask: the callback builds the task from the form as it
\* is when the timer fires.
capturedTask_FormAtFiring(t) == formTask(taskForm)

\* The task the callback of timer t passes to addTask: the const task of the
\* onSubmit call that set the timer.
capturedTask(t) == t.task

\* The callback onSubmit passed to setTimeout runs: taskService.addTask(task)
\* and what follows it in the try block.
submitTimer ==
    /\ Len(timers) > 0
    /\ timers[NextTimer].kind = "submit"
    /\ LET t == timers[NextTimer]
           at == Max(now, t.due)
       IN  /\ Recorded("submitTimer", "", capturedTask(t))
           /\ now' = at
           /\ _tasks' = addTaskUpdater(_tasks,
                             newTask(capturedTask(t), UUID(uuidCount + 1), at))
           /\ uuidCount' = uuidCount + 1
           /\ memo' = notify(memo, "_tasks")
           /\ isSubmitting' = FALSE
           /\ showSuccessMessage' = TRUE
           /\ taskForm' = resetForm
           /\ timers' = Append(WithoutTimer(NextTimer),
                               [ kind |-> "hide",
                                 due |-> at + HideDelay,
                                 task |-> NoProperties ])
    /\ UNCHANGED <<_filter, listVars>>

\* Variant of submitTimerThrows: the catch block does not clear isSubmitting.
submitTimerThrows_KeepsSubmitting ==
    /\ Len(timers) > 0
    /\ timers[NextTimer].kind = "submit"
    /\ Recorded("submitTimerThrows", "", capturedTask(timers[NextTimer]))
    /\ now' = Max(now, timers[NextTimer].due)
    /\ timers' = WithoutTimer(NextTimer)
    /\ UNCHANGED <<storeVars, taskForm, isSubmitting, showSuccessMessage,
                   listVars>>

\* The callback onSubmit passed to setTimeout runs and taskService.addTask
\* throws before it has changed the store: the catch block runs.
submitTimerThrows ==
    /\ Len(timers) > 0
    /\ timers[NextTimer].kind = "submit"
    /\ Recorded("submitTimerThrows", "", capturedTask(timers[NextTimer]))
    /\ now' = Max(now, timers[NextTimer].due)
    /\ isSubmitting' = FALSE
    /\ timers' = WithoutTimer(NextTimer)
    /\ UNCHANGED <<storeVars, taskForm, showSuccessMessage, listVars>>

\* Variant of hideTimer: the callback runs and leaves the flag as it is.
hideTimer_KeepsMessage ==
    /\ Len(timers) > 0
    /\ timers[NextTimer].kind = "hide"
    /\ Recorded("hideTimer", "", NoProperties)
    /\ now' = Max(now, timers[NextTimer].due)
    /\ timers' = WithoutTimer(NextTimer)
    /\ UNCHANGED <<storeVars, taskForm, isSubmitting, showSuccessMessage,
                   listVars>>

\* The callback that hides the success message runs.
hideTimer ==
    /\ Len(timers) > 0
    /\ timers[NextTimer].kind = "hide"
    /\ Recorded("hideTimer", "", NoProperties)
    /\ now' = Max(now, timers[NextTimer].due)
    /\ showSuccessMessage' = FALSE
    /\ timers' = WithoutTimer(NextTimer)
    /\ UNCHANGED <<storeVars, taskForm, isSubmitting, listVars>>

\* Variant of onReset: a pending submission is cancelled as well.
onReset_CancelsPending ==
    /\ Recorded("onReset", "", NoProperties)
    /\ taskForm' = resetForm
    /\ showSuccessMessage' = FALSE
    /\ isSubmitting' = FALSE
    /\ timers' = SelectSeq(timers, LAMBDA t : t.kind # "submit")
    /\ UNCHANGED <<storeVars, now, listVars>>

\* AddTaskComponent.onReset
onReset ==
    /\ Recorded("onReset", "", NoProperties)
    /\ taskForm' = resetForm
    /\ showSuccessMessage' = FALSE
    /\ UNCHANGED <<storeVars, now, isSubmitting, timers, listVars>>

NextForm ==
    \/ steps < MaxSteps /\ \E in \in FormInputs : setValue(in[1], in[2])
    \/ steps < MaxSteps /\ onSubmit
    \/ steps < MaxSteps /\ submitTimer
    \/ steps < MaxSteps /\ hideTimer
    \/ steps < MaxSteps /\ onReset
    \/ steps < MaxSteps /\ \E ms \in TickSteps : Tick(ms)

SpecForm == Init /\ [][NextForm]_vars

\* What the user puts into the controls where the timers run to the end.
LiveInputs ==
    { <<"title", "ab">>, <<"title", "Test Task">>, <<"title", "  Test Task ">>,
      <<"description", "Test Description">>,
      <<"priority", HIGH>>,
      <<"dueDate", "2030-01-01">> }

\* The form with its timers left to run: the user's calls are bounded, a
\* timer that is set fires. The event loop runs every callback that is due,
\* hence the weak fairness of the two callbacks.
NextLive ==
    \/ steps < MaxSteps /\ \E in \in LiveInputs : setValue(in[1], in[2])
    \/ steps < MaxSteps /\ onSubmit
    \/ steps < MaxSteps /\ onReset
    \/ submitTimer
    \/ hideTimer

SpecLive ==
    /\ Init
    /\ [][NextLive]_vars
    /\ WF_vars(submitTimer)
    /\ WF_vars(hideTimer)

----------------------------------------------------------------------------
\* The task list

\* TaskListComponent's fields as its constructor sets them from getFilter()
\* of a store whose filter is filter: priority || null.
constructedTaskList(filter) ==
    [ searchTerm |-> filter.searchTerm,
      showCompleted |-> filter.showCompleted,
      selectedPriority |-> IF NotPriority(Get(filter, "priority", Undefined))
                           THEN Null
                           ELSE filter.priority ]

\* A TaskListComponent is constructed anew on the store as it is.
newTaskList ==
    /\ Recorded("TaskListComponent", "", NoProperties)
    /\ taskList' = constructedTaskList(getFilter)
    /\ UNCHANGED <<storeVars, now, formVars>>

\* Variant of sentFilter: the priority is not passed.
sentFilter_OmitsPriority(list) ==
    [ searchTerm |-> list.searchTerm,
      showCompleted |-> list.showCompleted ]

\* The object TaskListComponent.updateFilter passes to the store:
\* selectedPriority || undefined.
sentFilter(list) ==
    [ searchTerm |-> list.searchTerm,
      showCompleted |-> list.showCompleted,
      priority |-> IF list.selectedPriority = Null
                   THEN Undefined
                   ELSE list.selectedPriority ]

\* A filter control changed: the handler has set its field, giving the
\* fields list, and calls TaskListComponent.updateFilter.
controlChanged(op, list) ==
    /\ Recorded(op, "", sentFilter(list))
    /\ taskList' = list
    /\ _filter' = updateFilterUpdater(_filter, sentFilter(list))
    /\ memo' = notify(memo, "_filter")
    /\ UNCHANGED <<_tasks, now, uuidCount, formVars>>

onSearchChange(value) ==
    controlChanged("onSearchChange", [taskList EXCEPT !.searchTerm = value])

onShowCompletedChange(checked) ==
    controlChanged("onShowCompletedChange",
                   [taskList EXCEPT !.showCompleted = checked])

\* target.value ? target.value as TaskPriority : null
onPriorityFilterChange(value) ==
    controlChanged("onPriorityFilterChange",
                   [taskList EXCEPT
                        !.selectedPriority = IF value = "" THEN Null ELSE value])

\* A handler that returns without calling the store; answer is what the
\* user gave to its prompt() or confirm().
nothingDone(op, id, answer) ==
    /\ Recorded(op, id, [answer |-> answer])
    /\ UNCHANGED <<storeVars, now, formVars, listVars>>

onToggleComplete(taskId) == toggleTask(taskId)

\* Variant of editUpdates: the whole edited task is passed, under the id of
\* the first seeded task.
editUpdates_PassesWholeTask(task, newTitle) ==
    Spread(task, [ id |-> "1", title |-> trim(newTitle) ])

\* The updates onEditTask passes to updateTask.
editUpdates(task, newTitle) == [ title |-> trim(newTitle) ]

\* Variant of editAccepted: a title of white space is accepted.
editAccepted_BlankAllowed(task, newTitle) ==
    newTitle # Null /\ newTitle # "" /\ newTitle # task.title

\* newTitle && newTitle.trim() && newTitle !== task.title
editAccepted(task, newTitle) ==
    /\ newTitle # Null
    /\ newTitle # ""
    /\ trim(newTitle) # ""
    /\ newTitle # task.title

\* newTitle is what prompt() returned: null when it was cancelled.
onEditTask(task, newTitle) ==
    IF editAccepted(task, newTitle)
    THEN updateTask(task.id, editUpdates(task, newTitle))
    ELSE nothingDone("onEditTask", task.id, newTitle)

\* confirmed is what confirm() returned.
onDeleteTask(taskId, confirmed) ==
    IF confirmed
    THEN deleteTask(taskId)
    ELSE nothingDone("onDeleteTask", taskId, confirmed)

\* What the user types into the search box, and what prompt() returns.
SearchInputs == {"", "signals", "test"}
PromptInputs ==
    {Null, "", "   ", "Learn Angular 16 Signals", " ab ", "Updated Title"}

\* The task list used next to other callers of updateFilter.
NextList ==
    \/ steps < MaxSteps /\ \E value \in SearchInputs : onSearchChange(value)
    \/ steps < MaxSteps /\ \E checked \in BOOLEAN :
                               onShowCompletedChange(checked)
    \/ steps < MaxSteps /\ \E value \in {"", HIGH, LOW} :
                               onPriorityFilterChange(value)
    \/ steps < MaxSteps /\ \E i \in DOMAIN FilterUpdates :
                               updateFilter(FilterUpdates[i])
    \/ steps < MaxSteps /\ newTaskList

SpecList == Init /\ [][NextList]_vars

\* Bound of the exploration of the presentation layer.
MaxUISteps == 6

\* The presentation layer alone: the form, its submit timer, and the task
\* list's handlers, on the tasks the store holds.
NextUI ==
    \/ steps < MaxUISteps /\ setValue("title", "Test Task")
    \/ steps < MaxUISteps /\ onSubmit
    \/ steps < MaxUISteps /\ submitTimer
    \/ steps < MaxUISteps /\ \E i \in 1..Len(_tasks) :
                                 onToggleComplete(_tasks[i].id)
    \/ steps < MaxUISteps /\ \E i \in 1..Len(_tasks) :
                                 \E newTitle \in PromptInputs :
                                     onEditTask(_tasks[i], newTitle)
    \/ steps < MaxUISteps /\ \E i \in 1..Len(_tasks) :
                                 \E confirmed \in BOOLEAN :
                                     onDeleteTask(_tasks[i].id, confirmed)
    \/ steps < MaxUISteps /\ onSearchChange("test")
    \/ steps < MaxUISteps /\ onShowCompletedChange(FALSE)
    \/ steps < MaxUISteps /\ onPriorityFilterChange(HIGH)

SpecUI == Init /\ [][NextUI]_vars

\* A form submission with store operations made by other callers during the
\* delay, between onSubmit and the firing of its timer.
NextDeferred ==
    \/ steps < MaxUISteps /\ setValue("title", "Test Task")
    \/ steps < MaxUISteps /\ onSubmit
    \/ steps < MaxUISteps /\ submitTimer
    \/ steps < MaxUISteps /\ isSubmitting /\ \E id \in {"1", "2"} : toggleTask(id)
    \/ steps < MaxUISteps /\ isSubmitting /\ \E i \in {1, 2} :
                                 updateTask("1", TaskUpdates[i])
    \/ steps < MaxUISteps /\ isSubmitting /\ \E id \in {"1", "2"} : deleteTask(id)
    \/ steps < MaxUISteps /\ isSubmitting /\ \E i \in {1, 3} :
                                 updateFilter(FilterUpdates[i])

SpecDeferred == Init /\ [][NextDeferred]_vars

----------------------------------------------------------------------------
\* The task item

\* a > b for two Dates: the comparison of their time values, false when one
\* of them is NaN.
dateGreater(a, b) ==
    IF a = InvalidDate \/ b = InvalidDate THEN FALSE ELSE a[1] > b[1]

\* Variant of isOverdue: a completed task can be overdue.
isOverdue_IgnoresCompleted(task, t) ==
    IF Get(task, "dueDate", UndefinedDate) = UndefinedDate
    THEN FALSE
    ELSE dateGreater(Date(t), task.dueDate)

\* TaskItemComponent.isOverdue for the item showing task, called at time t.
isOverdue(task, t) ==
    IF Get(task, "dueDate", UndefinedDate) = UndefinedDate \/ task.completed
    THEN FALSE
    ELSE dateGreater(Date(t), task.dueDate)

\* Time passing in steps of half a week.
OverdueTicks == {(7 * MsPerDay) \div 2}

\* Tasks with and without a due date, toggled while time passes.
NextOverdue ==
    \/ steps < MaxSteps /\ \E id \in {"1", "2"} : toggleTask(id)
    \/ steps < MaxSteps /\ \E i \in DOMAIN Drafts : addTask(Drafts[i])
    \/ steps < MaxSteps /\ \E id \in {"1", "2"} : updateTask(id, TaskUpdates[4])
    \/ steps < MaxSteps /\ \E ms \in OverdueTicks : Tick(ms)

SpecOverdue == Init /\ [][NextOverdue]_vars

\* Bound of the exploration of the form's timers: long enough for two
\* submissions to complete and the first one's hide timer to fire.
MaxTimerSteps == 7

\* The form given a valid title and submitted again and again, with its
\* timers firing when they are due.
NextTimers ==
    \/ steps < MaxTimerSteps /\ \E title \in {"Test Task", "ab"} :
                                     setValue("title", title)
    \/ steps < MaxTimerSteps /\ onSubmit
    \/ steps < MaxTimerSteps /\ submitTimer
    \/ steps < MaxTimerSteps /\ hideTimer
    \/ steps < MaxTimerSteps /\ onReset
    \/ steps < MaxTimerSteps /\ \E ms \in TickSteps : Tick(ms)

SpecTimers == Init /\ [][NextTimers]_vars

\* The form with a store call that may throw, next to the operations of
\* other callers of the store.
NextSubmitting ==
    \/ steps < MaxTimerSteps /\ \E title \in {"Test Task", "ab"} :
                                     setValue("title", title)
    \/ steps < MaxTimerSteps /\ onSubmit
    \/ steps < MaxTimerSteps /\ submitTimer
    \/ steps < MaxTimerSteps /\ submitTimerThrows
    \/ steps < MaxTimerSteps /\ hideTimer
    \/ steps < MaxTimerSteps /\ onReset
    \/ steps < MaxTimerSteps /\ toggleTask("1")
    \/ steps < MaxTimerSteps /\ updateFilter(FilterUpdates[1])

SpecSubmitting == Init /\ [][NextSubmitting]_vars

----------------------------------------------------------------------------
\* Reads of the store

\* A call of one of the computed signals: tasks(), filteredTasks(),
\* completedCount() or totalCount(). A clean computed returns what it holds;
\* otherwise its function runs and the result is memoized.
Read(view) ==
    LET hit == memo[view].status = "clean"
        run == evaluate(view, _tasks, _filter)
        ts == IF hit THEN _tasks ELSE run.receiver
        v == IF hit THEN memo[view].value ELSE run.value
    IN  /\ Recorded("read", view,
                  [value |-> returned(view, v, ts), from |-> memo[view].status])
        /\ memo' = [memo EXCEPT ![view] = [status |-> "clean", value |-> v]]
        /\ _tasks' = ts
        /\ UNCHANGED <<_filter, now, uuidCount, formVars, listVars>>

\* A call of getFilter().
ReadFilter ==
    /\ Recorded("getFilter", "", getFilter)
    /\ UNCHANGED <<storeVars, now, formVars, listVars>>

\* The store with its readers: mutations and reads in any order.
NextReads ==
    \/ steps < MaxSteps /\ addTask(Drafts[1])
    \/ steps < MaxSteps /\ \E id \in {"1", "no-such-id"} :
                               updateTask(id, TaskUpdates[2])
    \/ steps < MaxSteps /\ \E id \in {"1", "2"} : deleteTask(id)
    \/ steps < MaxSteps /\ \E id \in {"1", "2"} : toggleTask(id)
    \/ steps < MaxSteps /\ \E i \in {1, 3} : updateFilter(FilterUpdates[i])
    \/ steps < MaxSteps /\ \E view \in Views : Read(view)
    \/ steps < MaxSteps /\ ReadFilter

SpecReads == Init /\ [][NextReads]_vars

----------------------------------------------------------------------------
\* A caller that writes to what tasks() returned

\* A task object made by the caller.
CallerTask ==
    [ id |-> "pushed", title |-> "Test Task", description |-> "",
      completed |-> TRUE, priority |-> LOW, createdAt |-> Date(0) ]

\* service.tasks().push(task): tasks() hands out the array _tasks holds, so
\* the push lands in it, and no signal is set.
callerPush(task) ==
    /\ Recorded("tasks().push", "", task)
    /\ memo' = [memo EXCEPT !["tasks"] = [status |-> "clean", value |-> NoValue]]
    /\ _tasks' = Append(evaluate("tasks", _tasks, _filter).receiver, task)
    /\ UNCHANGED <<_filter, now, uuidCount, formVars, listVars>>

\* service.tasks()[i].completed = flag: the element is the task object the
\* store holds.
callerSetCompleted(i, flag) ==
    /\ i \in 1..Len(_tasks)
    /\ Recorded("tasks()[i].completed=", _tasks[i].id, [completed |-> flag])
    /\ memo' = [memo EXCEPT !["tasks"] = [status |-> "clean", value |-> NoValue]]
    /\ _tasks' = [evaluate("tasks", _tasks, _filter).receiver
                      EXCEPT ![i] = Spread(@, [completed |-> flag])]
    /\ UNCHANGED <<_filter, now, uuidCount, formVars, listVars>>

NextCaller ==
    \/ steps < MaxSteps /\ addTask(Drafts[1])
    \/ steps < MaxSteps /\ \E id \in {"1", "2"} : toggleTask(id)
    \/ steps < MaxSteps /\ updateFilter(FilterUpdates[1])
    \/ steps < MaxSteps /\ \E view \in Views : Read(view)
    \/ steps < MaxSteps /\ callerPush(CallerTask)
    \/ steps < MaxSteps /\ \E i \in 1..Len(_tasks) : \E flag \in BOOLEAN :
                               callerSetCompleted(i, flag)

SpecCaller == Init /\ [][NextCaller]_vars

----------------------------------------------------------------------------
\* Vocabulary of the properties

\* Some task of ts has this id.
HasId(ts, id) == \E i \in 1..Len(ts) : ts[i].id = id

\* No two tasks of ts share an id.
UniqueIds(ts) ==
    \A i, j \in 1..Len(ts) : i # j => ts[i].id # ts[j].id

\* The call that led to the current state.
WasCall(op) == last.op = op

\* tasks.find(task => task.id === id).completed, for an id that is present.
CurrentCompleted(ts, id) ==
    ts[CHOOSE i \in 1..Len(ts) :
          ts[i].id = id /\ \A j \in 1..(i - 1) : ts[j].id # id].completed

----------------------------------------------------------------------------
\* C1: in every reachable state no two tasks held by the store share an id.
\* Stated as claimed; the store violates it (see C2): updateTask copies an
\* id carried by the partial into the task.
C1_IdsUnique == UniqueIds(_tasks)

\* C2: updateTask(id, partial) leaves the id and the createdAt of the
\* matching task as they were, whatever the partial carries.
\* Stated as claimed; the store violates it.
C2_UpdateKeepsIdAndCreatedAt ==
    WasCall("updateTask") =>
        \A i \in 1..Len(before.tasks) :
            before.tasks[i].id = last.id =>
                /\ _tasks[i].id = before.tasks[i].id
                /\ _tasks[i].createdAt = before.tasks[i].createdAt

\* C3: updateTask(id, partial) for an existing id keeps the length and the
\* order of the sequence, leaves every task with another id as it was, and
\* replaces a matching task by a copy in which every property the partial
\* names has the supplied value and every other property its prior value.
C3_UpdateMerges ==
    (WasCall("updateTask") /\ HasId(before.tasks, last.id)) =>
        /\ Len(_tasks) = Len(before.tasks)
        /\ \A i \in 1..Len(before.tasks) :
              LET old == before.tasks[i]
                  new == _tasks[i]
              IN  IF old.id = last.id
                  THEN /\ DOMAIN new = (DOMAIN old) \cup (DOMAIN last.arg)
                       /\ \A k \in DOMAIN last.arg : new[k] = last.arg[k]
                       /\ \A k \in (DOMAIN old) \ (DOMAIN last.arg) :
                              new[k] = old[k]
                  ELSE new = old

C3_Witness ==
    /\ WasCall("updateTask")
    /\ HasId(before.tasks, last.id)
    /\ "title" \in DOMAIN last.arg
    /\ Len(_tasks) >= 3
    /\ _tasks # before.tasks

\* C4: addTask(draft) increases totalCount() by exactly 1, leaves the tasks
\* already held unchanged and in place, and appends a task with the draft's
\* title, description, priority, completed and dueDate, with the id the
\* store generated (held by no task before) and the createdAt the store
\* stamped, whatever id or createdAt the draft carries.
C4_AddAppends ==
    WasCall("addTask") =>
        /\ totalCount = Len(before.tasks) + 1
        /\ SubSeq(tasks, 1, Len(before.tasks)) = before.tasks
        /\ LET added == tasks[Len(tasks)]
               draft == last.arg
           IN  /\ added.title = draft.title
               /\ added.description = draft.description
               /\ added.priority = draft.priority
               /\ added.completed = draft.completed
               /\ Get(added, "dueDate", UndefinedDate)
                      = Get(draft, "dueDate", UndefinedDate)
               /\ added.id = UUID(uuidCount)
               /\ ~HasId(before.tasks, added.id)
               /\ added.createdAt = Date(now)

C4_Witness ==
    /\ WasCall("addTask")
    /\ "id" \in DOMAIN last.arg
    /\ "createdAt" \in DOMAIN last.arg
    /\ last.arg.id # tasks[Len(tasks)].id
    /\ last.arg.createdAt # tasks[Len(tasks)].createdAt
    /\ Len(before.tasks) >= 3

\* C5 as claimed: after any sequence of addTask calls on a newly created
\* store, totalCount() equals the number of adds.
C5_CountEqualsAdds == totalCount = uuidCount

\* C5 as amended: after any sequence of addTask calls on a newly created
\* store, totalCount() equals the 2 seed tasks plus the number of adds, and
\* the ids of the tasks (seed and added) are pairwise distinct.
C5_CountIsSeedPlusAdds ==
    /\ totalCount = 2 + uuidCount
    /\ UniqueIds(tasks)
    /\ \A n \in 1..uuidCount : tasks[2 + n].id = UUID(n)

C5_Witness == uuidCount >= 3 /\ totalCount >= 5

\* C6: deleteTask(id) for an id held by the store removes exactly one task,
\* the matching one: totalCount() decreases by exactly 1 and the other tasks
\* stay as they were, in their order; a second deleteTask(id) changes
\* nothing.
\* Stated as claimed; it fails in the states C2's defect makes reachable,
\* where two tasks share the id.
C6_DeleteRemovesExactlyOne ==
    (WasCall("deleteTask") /\ HasId(before.tasks, last.id)) =>
        /\ totalCount = Len(before.tasks) - 1
        /\ \E i \in 1..Len(before.tasks) :
              /\ before.tasks[i].id = last.id
              /\ tasks = SubSeq(before.tasks, 1, i - 1)
                            \o SubSeq(before.tasks, i + 1, Len(before.tasks))
        /\ deleteTaskUpdater(tasks, last.id) = tasks

\* C7: updateTask, deleteTask and toggleTask called with an id no task has
\* leave the task sequence, the filter and every derived view unchanged.
C7_UnknownIdIsNoOp ==
    (/\ last.op \in {"updateTask", "deleteTask", "toggleTask"}
     /\ ~HasId(before.tasks, last.id)) =>
        /\ _tasks = before.tasks
        /\ _filter = before.filter
        /\ filteredTasks = filterTasks(before.tasks, before.filter)
        /\ totalCount = Len(before.tasks)
        /\ completedCount = Len(filterCompleted(before.tasks))

C7_Witness ==
    /\ WasCall("deleteTask")
    /\ ~HasId(before.tasks, last.id)
    /\ Len(before.tasks) >= 2
    /\ \E i \in 1..Len(before.tasks) : before.tasks[i].title = "Updated Title"

\* C8: a toggleTask(id) flips completed of the matching task and changes
\* nothing else; a second toggleTask(id) made right after it (the updater
\* applied to the state the first call left) gives back the task sequence
\* as it was before the first call.
C8_ToggleTwiceRestores ==
    WasCall("toggleTask") =>
        /\ Len(_tasks) = Len(before.tasks)
        /\ \A i \in 1..Len(before.tasks) :
              before.tasks[i].id = last.id =>
                  _tasks[i].completed = ~before.tasks[i].completed
        /\ toggleTaskUpdater(_tasks, last.id) = before.tasks

C8_Witness ==
    /\ WasCall("toggleTask")
    /\ HasId(before.tasks, last.id)
    /\ _tasks # before.tasks
    /\ \E i \in 1..Len(_tasks) : _tasks[i].id = last.id /\ ~_tasks[i].completed

\* C9: from every reachable state and for every id, toggleTask(id) gives
\* the same store state as updateTask(id, { completed: !current }), current
\* being the completed flag of the task with that id, and as doing nothing
\* when no task has the id.
\* Stated as claimed; it fails in the states C2's defect makes reachable,
\* where two tasks share the id and differ in completed.
C9_ToggleIsUpdate ==
    \A id \in KnownIds :
        IF HasId(_tasks, id)
        THEN toggleTaskUpdater(_tasks, id)
                 = updateTaskUpdater(_tasks, id,
                       [completed |-> ~CurrentCompleted(_tasks, id)])
        ELSE toggleTaskUpdater(_tasks, id) = _tasks

\* C10: filteredTasks() is exactly the subsequence of tasks() whose elements
\* pass the filter: (showCompleted or not completed) and (priority absent or
\* equal to the task's) and (searchTerm empty, or contained in the
\* case-folded title, or contained in the case-folded description, the term
\* case-folded too).
C10_FilteredIsMatchingSubsequence ==
    LET Passes(task) ==
            /\ _filter.showCompleted = TRUE \/ task.completed = FALSE
            /\ \/ "priority" \notin DOMAIN _filter
               \/ _filter.priority = Undefined
               \/ _filter.priority = task.priority
            /\ \/ _filter.searchTerm = ""
               \/ includes(toLowerCase(task.title),
                           toLowerCase(_filter.searchTerm))
               \/ includes(toLowerCase(task.description),
                           toLowerCase(_filter.searchTerm))
        Kept == {i \in 1..Len(tasks) : Passes(tasks[i])}
        \* the k-th smallest index of Kept
        Nth(k) == CHOOSE i \in Kept : Cardinality({j \in Kept : j <= i}) = k
    IN  /\ Len(filteredTasks) = Cardinality(Kept)
        /\ \A k \in 1..Len(filteredTasks) : filteredTasks[k] = tasks[Nth(k)]

C10_Witness ==
    /\ _filter.searchTerm = "COMPONENTS"
    /\ _filter.showCompleted
    /\ "priority" \in DOMAIN _filter
    /\ _filter.priority = Undefined
    /\ Len(tasks) >= 3
    /\ Len(filteredTasks) >= 1
    /\ Len(filteredTasks) < Len(tasks)

----------------------------------------------------------------------------
\* a is b with some elements left out, the others in b's order.
RECURSIVE IsSubsequence(_, _)
IsSubsequence(a, b) ==
    IF Len(a) = 0 THEN TRUE
    ELSE IF Len(b) = 0 THEN FALSE
    ELSE IF Head(a) = Head(b) THEN IsSubsequence(Tail(a), Tail(b))
    ELSE IsSubsequence(a, Tail(b))

\* The calls that go to the task sequence.
TaskCalls == {"addTask", "updateTask", "deleteTask", "toggleTask"}

\* C11: updateFilter(partial) merges: every property the partial names has
\* the supplied value, every other property of the filter its prior value
\* (so an updateFilter that does not name showCompleted keeps it); no other
\* call changes the filter; and while showCompleted is false, filteredTasks()
\* holds no completed task.
C11_FilterMerges ==
    /\ WasCall("updateFilter") =>
          /\ DOMAIN _filter = (DOMAIN before.filter) \cup (DOMAIN last.arg)
          /\ \A k \in DOMAIN last.arg : _filter[k] = last.arg[k]
          /\ \A k \in (DOMAIN before.filter) \ (DOMAIN last.arg) :
                 _filter[k] = before.filter[k]
    /\ (WasCall("updateFilter") /\ "showCompleted" \notin DOMAIN last.arg) =>
          _filter.showCompleted = before.filter.showCompleted
    /\ ~WasCall("updateFilter") => _filter = before.filter
    /\ ~_filter.showCompleted =>
          \A k \in 1..Len(filteredTasks) : ~filteredTasks[k].completed

C11_Witness ==
    /\ WasCall("updateFilter")
    /\ DOMAIN last.arg = {"searchTerm"}
    /\ last.arg.searchTerm = "signals"
    /\ ~before.filter.showCompleted
    /\ ~_filter.showCompleted
    /\ \E i \in 1..Len(tasks) : tasks[i].completed
    /\ Len(filteredTasks) >= 1

\* C13: totalCount() is the number of tasks held and completedCount() the
\* number of held tasks with completed = true, whatever the filter:
\* updateFilter leaves tasks(), totalCount() and completedCount() as they
\* were, and addTask, updateTask, deleteTask and toggleTask leave the filter
\* as it was.
C13_CountsIgnoreFilter ==
    /\ totalCount = Cardinality(DOMAIN _tasks)
    /\ completedCount = Cardinality({i \in DOMAIN _tasks : _tasks[i].completed})
    /\ WasCall("updateFilter") =>
          /\ tasks = before.tasks
          /\ totalCount = Cardinality(DOMAIN before.tasks)
          /\ completedCount =
                 Cardinality({i \in DOMAIN before.tasks :
                                  before.tasks[i].completed})
    /\ last.op \in TaskCalls => _filter = before.filter

C13_Witness ==
    /\ WasCall("updateFilter")
    /\ ~_filter.showCompleted
    /\ before.filter.showCompleted
    /\ completedCount >= 2
    /\ Len(filteredTasks) < totalCount

\* C15: the order of tasks() is the order of insertion. updateTask and
\* toggleTask keep every task at its index (a task with another id is
\* unchanged there, a matching one keeps there every property the call does
\* not name), deleteTask leaves the survivors in their order, addTask keeps
\* the held tasks in place and adds the new one after them, and
\* filteredTasks() lists its tasks in the order of tasks().
C15_OrderKept ==
    /\ last.op \in {"updateTask", "toggleTask"} =>
          /\ Len(_tasks) = Len(before.tasks)
          /\ \A i \in 1..Len(before.tasks) :
                IF before.tasks[i].id = last.id
                THEN LET named == IF WasCall("toggleTask")
                                  THEN {"completed"}
                                  ELSE DOMAIN last.arg
                     IN  \A k \in (DOMAIN before.tasks[i]) \ named :
                             _tasks[i][k] = before.tasks[i][k]
                ELSE _tasks[i] = before.tasks[i]
    /\ WasCall("deleteTask") => IsSubsequence(_tasks, before.tasks)
    /\ WasCall("addTask") =>
          /\ Len(_tasks) = Len(before.tasks) + 1
          /\ SubSeq(_tasks, 1, Len(before.tasks)) = before.tasks
    /\ last.op \in {"updateFilter", "tick"} => _tasks = before.tasks
    /\ IsSubsequence(filteredTasks, tasks)

C15_Witness ==
    /\ WasCall("deleteTask")
    /\ Len(before.tasks) >= 3
    /\ _tasks = Tail(before.tasks)
    /\ Len(filteredTasks) = 1
    /\ filteredTasks[1] = tasks[2]

\* C16: a newly created store holds the two seed tasks in order (the first
\* not completed, priority HIGH, title 'Learn Angular 16 Signals'; the second
\* completed, priority MEDIUM), totalCount() = 2, completedCount() = 1, and
\* the filter showCompleted = true, searchTerm '', no priority, under which
\* filteredTasks() equals tasks().
C16_NewStore ==
    steps = 0 =>
        /\ Len(tasks) = 2
        /\ ~tasks[1].completed
        /\ tasks[1].priority = HIGH
        /\ tasks[1].title = "Learn Angular 16 Signals"
        /\ tasks[2].completed
        /\ tasks[2].priority = MEDIUM
        /\ totalCount = 2
        /\ completedCount = 1
        /\ getFilter.showCompleted = TRUE
        /\ getFilter.searchTerm = ""
        /\ "priority" \notin DOMAIN getFilter
        /\ filteredTasks = tasks

C16_Witness == steps = 0 /\ WasCall("new") /\ totalCount = 2

\* C17: on a newly created store each of updateFilter({showCompleted:
\* false}), updateFilter({searchTerm: 'signals'}) and updateFilter({priority:
\* HIGH}), made alone, leaves filteredTasks() holding the first seed task and
\* nothing else.
C17_SingleFieldFilters ==
    (/\ steps = 1
     /\ WasCall("updateFilter")
     /\ \/ DOMAIN last.arg = {"showCompleted"} /\ ~last.arg.showCompleted
        \/ DOMAIN last.arg = {"searchTerm"} /\ last.arg.searchTerm = "signals"
        \/ DOMAIN last.arg = {"priority"} /\ last.arg.priority = HIGH) =>
        /\ Len(filteredTasks) = 1
        /\ filteredTasks[1] = tasks[1]
        /\ filteredTasks[1].title = "Learn Angular 16 Signals"

C17_Witness ==
    /\ steps = 1
    /\ WasCall("updateFilter")
    /\ DOMAIN last.arg = {"searchTerm"}
    /\ last.arg.searchTerm = "signals"
    /\ Len(filteredTasks) = 1

----------------------------------------------------------------------------
\* What a call of the view would return in the current state.
WouldReturn(view) ==
    IF memo[view].status = "clean"
    THEN returned(view, memo[view].value, _tasks)
    ELSE LET run == evaluate(view, _tasks, _filter)
         IN  returned(view, run.value, run.receiver)

\* The view as the task sequence ts and the filter f determine it.
ViewOf(view, ts, f) ==
    CASE view = "tasks" -> ts
      [] view = "filteredTasks" -> filterTasks(ts, f)
      [] view = "completedCount" ->
             Cardinality({i \in DOMAIN ts : ts[i].completed})
      [] view = "totalCount" -> Len(ts)

\* C12: every read of tasks(), filteredTasks(), totalCount() or
\* completedCount() returns the value determined by the task sequence and
\* the filter as the mutations made before the read left them, never a value
\* memoized in an earlier state.
C12_ReadsAreCurrent ==
    /\ WasCall("read") => last.arg.value = ViewOf(last.id, _tasks, _filter)
    /\ \A view \in Views : WouldReturn(view) = ViewOf(view, _tasks, _filter)

C12_Witness ==
    /\ WasCall("read")
    /\ last.id = "filteredTasks"
    /\ last.arg.from = "dirty"
    /\ Len(last.arg.value) = 3
    /\ totalCount = 3
    /\ memo["totalCount"].status = "dirty"

\* C14: a caller's write to the sequence tasks() returned, or to an element
\* of it, does not change what tasks(), filteredTasks(), totalCount() and
\* completedCount() return afterwards.
\* Stated as claimed; the store violates it: tasks() returns the array the
\* store holds.
C14_CallerWritesDoNotReachStore ==
    last.op \in {"tasks().push", "tasks()[i].completed="} =>
        \A view \in Views :
            WouldReturn(view) = ViewOf(view, before.tasks, before.filter)

\* C18: tasks(), filteredTasks(), totalCount(), completedCount() and
\* getFilter() change neither the task sequence nor the filter; getFilter()
\* returns the current filter, which only updateFilter changes, so that two
\* getFilter() calls with no updateFilter between them return the same value.
C18_ReadsHaveNoEffect ==
    /\ last.op \in {"read", "getFilter"} =>
          /\ _tasks = before.tasks
          /\ _filter = before.filter
    /\ WasCall("getFilter") => last.arg = _filter
    /\ ~WasCall("updateFilter") => _filter = before.filter

C18_Witness ==
    /\ WasCall("read")
    /\ last.id = "filteredTasks"
    /\ last.arg.from = "unset"
    /\ Len(_tasks) = 3
    /\ ~_filter.showCompleted
    /\ memo["totalCount"].status = "clean"

----------------------------------------------------------------------------
\* The title is null, or shorter than MinLength once trimmed.
TrimmedTitleTooShort(formValue) ==
    formValue.title = Null \/ length(trim(formValue.title)) < MinLength

\* C19: every title that reaches TaskService.addTask from the form is
\* trimmed and at least 3 characters long, and an onSubmit whose trimmed
\* title is empty or shorter than 3 characters does not lead to a call of
\* the store.
\* Stated as claimed; the form violates it: the validators see the title as
\* typed, before it is trimmed.
C19_OnlyValidTrimmedTitlesReachStore ==
    /\ WasCall("submitTimer") =>
          /\ last.arg.title = trim(last.arg.title)
          /\ length(last.arg.title) >= 3
    /\ (WasCall("onSubmit") /\ TrimmedTitleTooShort(last.arg)) =>
          timers = before.timers

\* C20: an onSubmit made while the form is invalid (title empty or shorter
\* than 3 characters) calls addTask neither at once nor through a timer: it
\* sets no timer and leaves the tasks and isSubmitting as they were, so with
\* no earlier submission pending isSubmitting stays false and no timer that
\* would call addTask is waiting.
C20_InvalidSubmitDoesNothing ==
    (/\ WasCall("onSubmit")
     /\ last.arg.title = Null \/ length(last.arg.title) < 3) =>
        /\ timers = before.timers
        /\ _tasks = before.tasks
        /\ isSubmitting = before.isSubmitting
        /\ ~before.isSubmitting =>
              /\ ~isSubmitting
              /\ \A i \in 1..Len(timers) : timers[i].kind # "submit"

C20_Witness ==
    /\ WasCall("onSubmit")
    /\ last.arg.title = "ab"
    /\ ~isSubmitting
    /\ timers = <<>>
    /\ steps >= 2

----------------------------------------------------------------------------
\* C21: a malformed due-date string entered in the form never reaches the
\* store: every task the form passes to addTask has either no dueDate or a
\* valid point in time as dueDate, never an invalid date.
\* Stated as claimed; the form violates it: the dueDate control has no
\* validator and new Date(s) of a malformed s is an invalid Date.
C21_NoInvalidDateReachesStore ==
    /\ WasCall("submitTimer") => last.arg.dueDate # InvalidDate
    /\ \A i \in 1..Len(_tasks) :
           Get(_tasks[i], "dueDate", UndefinedDate) # InvalidDate

----------------------------------------------------------------------------
\* The pending timers that will call addTask.
PendingSubmits == SelectSeq(timers, LAMBDA t : t.kind = "submit")

\* C22: each accepted form submission calls addTask exactly once. An
\* onSubmit made while isSubmitting is true schedules no timer and adds no
\* task; at most one submission timer is pending at any time; and the number
\* of addTask calls made, plus the one still to be made by a pending timer,
\* equals the number of onSubmit calls that found the form valid and
\* isSubmitting false.
C22_OneAddTaskPerAcceptedSubmit ==
    /\ Len(PendingSubmits) <= 1
    /\ uuidCount + Len(PendingSubmits) = accepted
    /\ Len(_tasks) = Len(SeedTasks) + uuidCount
    /\ (WasCall("onSubmit") /\ before.isSubmitting) =>
          /\ timers = before.timers
          /\ _tasks = before.tasks

C22_Witness ==
    /\ accepted = 2
    /\ uuidCount = 2
    /\ PendingSubmits = <<>>

\* C24: the success message shown for a submission is hidden 3 seconds after
\* that submission completed and not earlier, unless onReset is called: when
\* a hide timer clears a showSuccessMessage flag that was set, no later
\* submission's hide timer is still waiting for its own 3 seconds to elapse.
\* Stated as claimed; the form violates it: the hide timer of an earlier
\* submission is not cancelled when a later submission completes.
C24_MessageShownForThreeSeconds ==
    (WasCall("hideTimer") /\ before.showSuccessMessage) =>
        \A i \in 1..Len(timers) :
            timers[i].kind = "hide" => timers[i].due <= now

----------------------------------------------------------------------------
\* The valid forms a user can submit.
SubmittedForms ==
    [ title : {"Test Task", "  Test Task "},
      description : {"", Null, "Test Description"},
      priority : {MEDIUM, HIGH},
      dueDate : {"", Null, "2030-01-01"} ]

\* onSubmit was called with form f and found isSubmitting false.
AcceptedWith(f) ==
    WasCall("onSubmit") /\ last.arg = f /\ ~before.isSubmitting

\* The timer has just called addTask with the values of form f, and the
\* flags are as after a successful submission.
AddedFrom(f) ==
    /\ WasCall("submitTimer")
    /\ ~isSubmitting
    /\ showSuccessMessage
    /\ LET t == _tasks[Len(_tasks)]
       IN  /\ t.title = trim(f.title)
           /\ t.description =
                  (IF f.description = Null THEN "" ELSE trim(f.description))
           /\ t.priority = f.priority
           /\ t.completed = FALSE
           /\ Get(t, "dueDate", UndefinedDate) =
                  (IF f.dueDate \in {Null, ""}
                   THEN UndefinedDate
                   ELSE Date(14 * MsPerDay))

\* C23: under fair firing of timers, every accepted submission sets
\* isSubmitting to true at once, and eventually addTask is called with
\* completed = false and the form's title, description, priority and
\* dueDate, after which isSubmitting is false and showSuccessMessage is
\* true; and whenever showSuccessMessage is true it eventually becomes
\* false again.
C23_AcceptedSubmissionCompletes ==
    /\ [](\A f \in SubmittedForms : AcceptedWith(f) => isSubmitting)
    /\ \A f \in SubmittedForms : AcceptedWith(f) ~> AddedFrom(f)
    /\ showSuccessMessage ~> ~showSuccessMessage

C23_Witness ==
    /\ WasCall("hideTimer")
    /\ before.showSuccessMessage
    /\ ~showSuccessMessage
    /\ uuidCount = 1
    /\ _tasks[Len(_tasks)].priority = HIGH

----------------------------------------------------------------------------
\* C25: after a successful submission and after onReset the form is back at
\* its initial values: title, description and dueDate are the empty string
\* and priority is MEDIUM; onReset also sets showSuccessMessage to false.
\* Stated as claimed; the form violates it: reset({ priority: MEDIUM }) gives
\* the value null to the controls it does not name.
C25_ResetRestoresInitialValues ==
    /\ (WasCall("submitTimer") \/ WasCall("onReset")) =>
          /\ taskForm.title = ""
          /\ taskForm.description = ""
          /\ taskForm.dueDate = ""
          /\ taskForm.priority = MEDIUM
    /\ WasCall("onReset") => ~showSuccessMessage

----------------------------------------------------------------------------
\* C26: the task list translates each filter control change into an
\* updateFilter call carrying only the changed field: the search box sends
\* only searchTerm, the checkbox only showCompleted, the priority select only
\* priority, so the other fields of the filter stay as they were.
\* Stated as claimed; the task list violates it: it always sends its own
\* copies of all three fields.
C26_ControlsSendOnlyChangedField ==
    /\ WasCall("onSearchChange") =>
          /\ DOMAIN last.arg = {"searchTerm"}
          /\ _filter.showCompleted = before.filter.showCompleted
          /\ Get(_filter, "priority", Undefined)
                 = Get(before.filter, "priority", Undefined)
    /\ WasCall("onShowCompletedChange") =>
          /\ DOMAIN last.arg = {"showCompleted"}
          /\ _filter.searchTerm = before.filter.searchTerm
          /\ Get(_filter, "priority", Undefined)
                 = Get(before.filter, "priority", Undefined)
    /\ WasCall("onPriorityFilterChange") =>
          /\ DOMAIN last.arg = {"priority"}
          /\ _filter.searchTerm = before.filter.searchTerm
          /\ _filter.showCompleted = before.filter.showCompleted

----------------------------------------------------------------------------
\* The task has a due date and the time t is strictly after it.
PastDue(task, t) ==
    /\ "dueDate" \in DOMAIN task
    /\ task.dueDate # UndefinedDate
    /\ task.dueDate[1] < t

\* C27: isOverdue() is true exactly when the task has a dueDate, is not
\* completed, and the current time is strictly after the dueDate. So a
\* completed task and a task without dueDate are never overdue, toggling an
\* overdue task makes it not overdue, and toggling it back makes it overdue
\* again.
C27_OverdueIffDueUncompletedPast ==
    /\ \A i \in 1..Len(_tasks) :
           isOverdue(_tasks[i], now)
               <=> (PastDue(_tasks[i], now) /\ ~_tasks[i].completed)
    /\ WasCall("toggleTask") =>
           \A i \in 1..Len(before.tasks) :
               before.tasks[i].id = last.id =>
                   /\ isOverdue(before.tasks[i], now)
                          => ~isOverdue(_tasks[i], now)
                   /\ isOverdue(toggleTaskUpdater(_tasks, last.id)[i], now)
                          = isOverdue(before.tasks[i], now)

C27_Witness ==
    /\ WasCall("toggleTask")
    /\ last.id = "1"
    /\ isOverdue(before.tasks[1], now)
    /\ ~isOverdue(_tasks[1], now)
    /\ _tasks[1].completed

----------------------------------------------------------------------------
\* The ids of the tasks, in their order.
Ids(ts) == [i \in 1..Len(ts) |-> ts[i].id]

\* The task was in the store before the call, with this id and createdAt.
WasThere(task) ==
    \E j \in 1..Len(before.tasks) :
        /\ before.tasks[j].id = task.id
        /\ before.tasks[j].createdAt = task.createdAt

\* C28: in every state reached through the presentation layer only (form
\* submissions, onToggleComplete, onEditTask, onDeleteTask, filter control
\* changes) the task ids are pairwise distinct, and every task has the id
\* and createdAt it was given when it was created: a call leaves them to the
\* tasks it keeps, and only a submission adds a task, with a new id.
C28_UiKeepsIdsAndCreatedAt ==
    /\ UniqueIds(_tasks)
    /\ \A i \in 1..Len(_tasks) :
           \/ WasThere(_tasks[i])
           \/ /\ WasCall("submitTimer")
              /\ i = Len(_tasks)
              /\ _tasks[i].id = UUID(uuidCount)
              /\ _tasks[i].createdAt = Date(now)
    /\ IsSubsequence(Ids(IF WasCall("submitTimer")
                         THEN SubSeq(_tasks, 1, Len(_tasks) - 1)
                         ELSE _tasks),
                     Ids(before.tasks))
    /\ \A i \in 1..Len(_tasks) :
           /\ _tasks[i].id = "1" => _tasks[i].createdAt = SeedTasks[1].createdAt
           /\ _tasks[i].id = "2" => _tasks[i].createdAt = SeedTasks[2].createdAt

C28_Witness ==
    /\ WasCall("updateTask")
    /\ last.id = UUID(1)
    /\ last.arg = [title |-> "Updated Title"]
    /\ Len(_tasks) = 3

----------------------------------------------------------------------------
\* C29: the deferred addTask of a pending submission composes with the store
\* operations made during the delay. Such an operation has its usual effect
\* and leaves the pending timer alone; when the timer fires, the tasks and
\* the filter as they are at that moment are kept as they are, and the new
\* task is appended after the last of these tasks.
C29_DeferredAddComposes ==
    /\ WasCall("submitTimer") =>
          /\ Len(_tasks) = Len(before.tasks) + 1
          /\ SubSeq(_tasks, 1, Len(before.tasks)) = before.tasks
          /\ _tasks[Len(_tasks)].title = last.arg.title
          /\ _tasks[Len(_tasks)].id = UUID(uuidCount)
          /\ _filter = before.filter
    /\ before.isSubmitting =>
          /\ WasCall("toggleTask") =>
                 _tasks = toggleTaskUpdater(before.tasks, last.id)
          /\ WasCall("updateTask") =>
                 _tasks = updateTaskUpdater(before.tasks, last.id, last.arg)
          /\ WasCall("deleteTask") =>
                 _tasks = deleteTaskUpdater(before.tasks, last.id)
          /\ WasCall("updateFilter") =>
                 _filter = updateFilterUpdater(before.filter, last.arg)
          /\ last.op \in TaskCalls \cup {"updateFilter"} =>
                 timers = before.timers /\ isSubmitting

C29_Witness ==
    /\ WasCall("submitTimer")
    /\ Len(before.tasks) = 1
    /\ before.tasks[1].title = "Updated Title"
    /\ before.filter.searchTerm = "signals"
    /\ _tasks[2].title = "Test Task"

\* C30: the task added by a form submission is built from the form values
\* at the moment onSubmit was called. Edits of the form made during the
\* delay leave the pending task alone, the timer adds the task as it was
\* built, and the edits are gone from the form once it is reset on
\* completion.
C30_TaskBuiltAtSubmit ==
    /\ (WasCall("onSubmit") /\ isSubmitting /\ ~before.isSubmitting) =>
          /\ Len(PendingSubmits) = 1
          /\ PendingSubmits[1].task.title = trim(last.arg.title)
          /\ PendingSubmits[1].task.priority = last.arg.priority
    /\ (WasCall("setValue") /\ isSubmitting) => timers = before.timers
    /\ WasCall("submitTimer") =>
          LET pending == SelectSeq(before.timers, LAMBDA t : t.kind = "submit")
              added == _tasks[Len(_tasks)]
          IN  /\ Len(pending) = 1
              /\ last.arg = pending[1].task
              /\ added.title = pending[1].task.title
              /\ added.description = pending[1].task.description
              /\ added.priority = pending[1].task.priority
              /\ added.dueDate = pending[1].task.dueDate
              /\ taskForm.title = Null
              /\ taskForm.description = Null
              /\ taskForm.dueDate = Null
              /\ taskForm.priority = MEDIUM

C30_Witness ==
    /\ WasCall("submitTimer")
    /\ before.form.title = "ab"
    /\ _tasks[Len(_tasks)].title = "Test Task"
    /\ taskForm.title = Null

----------------------------------------------------------------------------
\* C31: isSubmitting is true in exactly the states in which a submission
\* timer is pending. It becomes true when an accepted onSubmit sets the
\* timer, becomes false when that timer's callback runs, whether addTask
\* succeeds or throws, and no other action (onReset, the hide timer, an edit
\* of the form, a store operation) changes it.
C31_SubmittingIffTimerPending ==
    /\ isSubmitting <=> Len(PendingSubmits) = 1
    /\ Len(PendingSubmits) <= 1
    /\ (WasCall("onSubmit") /\ valid(last.arg) /\ ~before.isSubmitting) =>
           isSubmitting
    /\ (WasCall("submitTimer") \/ WasCall("submitTimerThrows")) =>
           before.isSubmitting /\ ~isSubmitting
    /\ last.op \notin {"onSubmit", "submitTimer", "submitTimerThrows"} =>
           isSubmitting = before.isSubmitting

C31_Witness ==
    /\ WasCall("submitTimerThrows")
    /\ before.isSubmitting
    /\ ~isSubmitting
    /\ uuidCount = 1
    /\ accepted = 2

----------------------------------------------------------------------------
\* C32: onReset does not cancel a pending submission. Called between an
\* accepted onSubmit and the firing of its timer, it leaves the timer and
\* its task as they are; addTask is still called once, with the values
\* captured at submit time, and showSuccessMessage is true afterwards
\* although onReset had set it to false.
C32_ResetKeepsPendingSubmission ==
    /\ WasCall("onReset") =>
          /\ timers = before.timers
          /\ isSubmitting = before.isSubmitting
          /\ _tasks = before.tasks
          /\ ~showSuccessMessage
    /\ uuidCount + Len(PendingSubmits) = accepted
    /\ WasCall("submitTimer") =>
          LET pending == SelectSeq(before.timers, LAMBDA t : t.kind = "submit")
          IN  /\ Len(pending) = 1
              /\ last.arg = pending[1].task
              /\ Len(_tasks) = Len(before.tasks) + 1
              /\ _tasks[Len(_tasks)].title = pending[1].task.title
              /\ showSuccessMessage

C32_Witness ==
    /\ WasCall("submitTimer")
    /\ before.form.title = Null
    /\ ~before.showSuccessMessage
    /\ uuidCount = 1
    /\ _tasks[Len(_tasks)].title = "Test Task"
    /\ showSuccessMessage

----------------------------------------------------------------------------
\* The calls after which the task list and the store agree on the filter.
ListCalls ==
    { "new", "TaskListComponent", "onSearchChange", "onShowCompletedChange",
      "onPriorityFilterChange" }

\* C33: after the TaskListComponent is constructed and after every filter
\* control event it handles, the store's filter equals the component's own
\* filter state: searchTerm and showCompleted are equal, and the filter's
\* priority is absent exactly when selectedPriority is null and otherwise
\* equals it.
C33_ListAndStoreAgree ==
    last.op \in ListCalls =>
        /\ _filter.searchTerm = taskList.searchTerm
        /\ _filter.showCompleted = taskList.showCompleted
        /\ NotPriority(Get(_filter, "priority", Undefined))
               <=> taskList.selectedPriority = Null
        /\ taskList.selectedPriority # Null =>
               _filter.priority = taskList.selectedPriority

C33_Witness ==
    /\ WasCall("onSearchChange")
    /\ before.filter.showCompleted # taskList.showCompleted
    /\ Get(before.filter, "priority", Undefined) = HIGH
    /\ taskList.selectedPriority = Null
    /\ _filter.searchTerm = "signals"

----------------------------------------------------------------------------
\* C34: a priority constraint can be removed again. After updateFilter is
\* called with priority set to undefined, filteredTasks() is not restricted
\* by priority: it holds the tasks that pass showCompleted and searchTerm;
\* and showCompleted and searchTerm keep their prior values (where the call
\* does not pass them as well).
C34_PriorityCanBeCleared ==
    (/\ WasCall("updateFilter")
     /\ "priority" \in DOMAIN last.arg
     /\ last.arg.priority = Undefined) =>
        /\ filteredTasks =
               SelectSeq(_tasks,
                         LAMBDA t : /\ _filter.showCompleted \/ ~t.completed
                                    /\ matchesSearch(_filter, t))
        /\ "showCompleted" \notin DOMAIN last.arg =>
               _filter.showCompleted = before.filter.showCompleted
        /\ "searchTerm" \notin DOMAIN last.arg =>
               _filter.searchTerm = before.filter.searchTerm

C34_Witness ==
    /\ WasCall("updateFilter")
    /\ last.arg = [priority |-> Undefined]
    /\ Get(before.filter, "priority", Undefined) = HIGH
    /\ ~_filter.showCompleted
    /\ Len(filterTasks(_tasks, before.filter)) = 1
    /\ Len(tasks) = 3
    /\ Len(filteredTasks) = 2

----------------------------------------------------------------------------
\* The title the task with this id had before the call (ids are distinct in
\* the states the presentation layer reaches).
TitleBefore(id) ==
    LET i == CHOOSE j \in 1..Len(before.tasks) : before.tasks[j].id = id
    IN  before.tasks[i].title

\* The prompt result asks for no edit: cancelled, blank, or the title as
\* it is.
NoEditAsked(id, answer) ==
    \/ answer = Null
    \/ length(trim(answer)) = 0
    \/ answer = TitleBefore(id)

\* C35: onEditTask calls updateTask only when the prompt result is non-null,
\* not blank after trimming and different from the current title, and then
\* passes only the trimmed title; a cancelled or blank prompt leaves the
\* store unchanged; onDeleteTask calls deleteTask only when the confirmation
\* is accepted. So editing through the list never gives a task an empty
\* title.
C35_EditAndDeleteAreGuarded ==
    /\ WasCall("updateTask") =>
          /\ DOMAIN last.arg = {"title"}
          /\ last.arg.title = trim(last.arg.title)
          /\ length(last.arg.title) > 0
          /\ \A i \in 1..Len(_tasks) :
                 _tasks[i].id = last.id => _tasks[i].title = last.arg.title
    /\ WasCall("onEditTask") =>
          /\ NoEditAsked(last.id, last.arg.answer)
          /\ _tasks = before.tasks
    /\ WasCall("onDeleteTask") =>
          /\ last.arg.answer = FALSE
          /\ _tasks = before.tasks
    /\ WasCall("deleteTask") => ~HasId(_tasks, last.id)
    /\ Len(_tasks) < Len(before.tasks) => WasCall("deleteTask")
    /\ \A i \in 1..Len(_tasks) : length(_tasks[i].title) > 0

C35_Witness ==
    /\ WasCall("onEditTask")
    /\ last.arg.answer = "   "
    /\ last.id = UUID(1)
    /\ \E i \in 1..Len(before.tasks) :
           /\ before.tasks[i].id = "1"
           /\ before.tasks[i].title = "ab"

====
